---- MODULE Spec2Model ----
(***************************************************************************)
(* cargo-clean-artifact: the liveness-analysis and garbage-collection      *)
(* engine (src/src/clean/mod.rs, scan.rs, stats.rs, crate_deps.rs).        *)
(*                                                                         *)
(* File names are sequences of one-character strings so that the string    *)
(* operations of the code (strip_prefix, split_once, rfind, file_stem,     *)
(* replace) are computed, not assumed.  A path below the output root is a  *)
(* triple <<profile, area, name>> with area in {"root","deps",             *)
(* "incremental"}: <target>/<profile>/<name>, <target>/<profile>/deps/     *)
(* <name> and <target>/<profile>/incremental/<name>.                       *)
(***************************************************************************)
EXTENDS Integers, Sequences, FiniteSets, TLC

\* ------------------------------------------------------------------------
\* Bounds of the model
\* ------------------------------------------------------------------------
MaxSize == 3
MaxExtra == 1
MaxSessions == 3
MaxFail == 1
MaxCycles == 2
MaxLines == 3
PipeCap == 1
MaxParts == 2
MaxConsumers == 1
MaxTokens == 4

\* ------------------------------------------------------------------------
\* Generic helpers on sequences
\* ------------------------------------------------------------------------
Range(s) == {s[i] : i \in 1..Len(s)}

Contains(s, c) == \E i \in 1..Len(s) : s[i] = c

\* index of the first occurrence of c in s, 0 when there is none (str::find)
Find(s, c) ==
    IF Contains(s, c)
    THEN CHOOSE i \in 1..Len(s) : s[i] = c /\ \A j \in 1..(i - 1) : s[j] # c
    ELSE 0

\* index of the last occurrence of c in s, 0 when there is none (str::rfind)
RFind(s, c) ==
    IF Contains(s, c)
    THEN CHOOSE i \in 1..Len(s) : s[i] = c /\ \A j \in (i + 1)..Len(s) : s[j] # c
    ELSE 0

StartsWith(s, p) == Len(s) >= Len(p) /\ SubSeq(s, 1, Len(p)) = p

LIB == <<"l", "i", "b">>

\* str::strip_prefix("lib").unwrap_or(s): strips one occurrence only
StripLib(s) == IF StartsWith(s, LIB) THEN SubSeq(s, Len(LIB) + 1, Len(s)) ELSE s

\* str::replace('-', "_")
ReplaceHyphen(s) == [i \in 1..Len(s) |-> IF s[i] = "-" THEN "_" ELSE s[i]]

\* Path::file_stem: the whole name when it has no '.', or when its only '.'
\* is the first character; otherwise the part before the last '.'
FileStem(name) ==
    LET i == RFind(name, ".")
    IN IF i <= 1 THEN name ELSE SubSeq(name, 1, i - 1)

\* the value of Option::None for an artifact stem (a stem is never empty)
None == <<>>

\* scan.rs artifact_stem
ArtifactStem(name) ==
    LET without_lib == StripLib(name)
        i == Find(without_lib, ".")
        stem == IF i = 0 THEN without_lib ELSE SubSeq(without_lib, 1, i - 1)
    IN IF Contains(stem, "-") THEN stem ELSE None

\* crate_deps.rs crate_key
CrateKey(name) ==
    LET n == StripLib(FileStem(name))
        i == Find(n, "-")
    IN IF i = 0 THEN n ELSE SubSeq(n, 1, i - 1)

\* ------------------------------------------------------------------------
\* TraceParser::extract_artifact_path (trace_parser.rs)
\* A line and a path of the build's output are sequences of one-character
\* strings; the output root is /t.
\* ------------------------------------------------------------------------
QUOTE == "\""
MTIME == <<"m", "t", "i", "m", "e">>
TargetDir == <<"/", "t">>

\* str::contains(pattern)
ContainsSeq(s, p) == \E i \in 1..(Len(s) - Len(p) + 1) : SubSeq(s, i, i + Len(p) - 1) = p

\* str::split(c): the parts between the occurrences of c, empty parts included
RECURSIVE Split(_, _)
Split(s, c) ==
    LET i == Find(s, c)
    IN IF i = 0 THEN <<s>>
       ELSE <<SubSeq(s, 1, i - 1)>> \o Split(SubSeq(s, i + 1, Len(s)), c)

\* Path::components: whether the path has a root, and its names ("" and "."
\* between separators are no components)
Components(path) ==
    [abs |-> path # <<>> /\ path[1] = "/",
     names |-> SelectSeq(Split(path, "/"), LAMBDA n : n # <<>> /\ n # <<".">>)]

\* Path::starts_with: whole components, not characters
PathStartsWith(path, base) ==
    LET c == Components(path)
        b == Components(base)
    IN /\ c.abs = b.abs
       /\ Len(c.names) >= Len(b.names)
       /\ SubSeq(c.names, 1, Len(b.names)) = b.names

\* Path::file_name: the last component unless it is ".."
PathFileName(path) ==
    LET names == Components(path).names
    IN IF names = <<>> \/ names[Len(names)] = <<".", ".">> THEN None
       ELSE names[Len(names)]

\* Path::extension: the part of the file name after its last '.', none when
\* the name has no '.' or only a leading one
PathExtension(path) ==
    LET name == PathFileName(path)
        i == RFind(name, ".")
    IN IF i <= 1 THEN None ELSE SubSeq(name, i + 1, Len(name))

\* the allow-list: rlib, rmeta, so, dylib, dll
ArtifactExtensions ==
    {<<"r", "l", "i", "b">>, <<"r", "m", "e", "t", "a">>, <<"s", "o">>,
     <<"d", "y", "l", "i", "b">>, <<"d", "l", "l">>}

\* "for part in parts.iter().rev()": the last part, from index i downwards,
\* with an allow-listed extension and below the output root
RECURSIVE LastArtifactPart(_, _)
LastArtifactPart(parts, i) ==
    IF i = 0 THEN None
    ELSE IF PathExtension(parts[i]) \in ArtifactExtensions /\ PathStartsWith(parts[i], TargetDir)
         THEN parts[i]
         ELSE LastArtifactPart(parts, i - 1)

ExtractArtifactPathAnyLine(line) ==
    LET parts == Split(line, QUOTE)
    IN IF Len(parts) < 2 THEN None ELSE LastArtifactPart(parts, Len(parts))

\* extract_artifact_path: None stands for Option::None
ExtractArtifactPath(line) ==
    IF ~ContainsSeq(line, MTIME) THEN None
    ELSE LET parts == Split(line, QUOTE)
         IN IF Len(parts) < 2 THEN None ELSE LastArtifactPart(parts, Len(parts))

\* ------------------------------------------------------------------------
\* Lines of the build's output
\* ------------------------------------------------------------------------
INFO == <<"i", "n", "f", "o">>
T_SP == <<" ">>
T_A == <<"/", "t", "/", "a", ".", "r", "l", "i", "b">>
T_B == <<"/", "t", "/", "b", ".", "s", "o">>
T_OUT == <<"/", "o", "/", "a", ".", "r", "l", "i", "b">>
T_TXT == <<"/", "t", "/", "a", ".", "t", "x", "t">>
T_TX == <<"/", "t", "x", "/", "a", ".", "s", "o">>
TextPool == {T_SP, T_A, T_B, T_OUT, T_TXT, T_TX}

\* a stretch of a line: text between a pair of quotes, text outside quotes,
\* or text after a quote that is never closed
SegmentKinds == {"quoted", "bare", "open"}
Segments == [kind : SegmentKinds, text : TextPool]

RenderSegment(seg) ==
    IF seg.kind = "quoted" THEN <<QUOTE>> \o seg.text \o <<QUOTE>>
    ELSE IF seg.kind = "open" THEN <<QUOTE>> \o seg.text
    ELSE seg.text

RECURSIVE Render(_)
Render(segs) == IF segs = <<>> THEN <<>> ELSE RenderSegment(Head(segs)) \o Render(Tail(segs))

\* a fingerprint log line ("max output mtime for ... is ...") or another line
LineOf(mentions_mtime, segs) ==
    (IF mentions_mtime THEN MTIME ELSE INFO) \o <<" ">> \o Render(segs)

Quoted(text) == [kind |-> "quoted", text |-> text]

\* a line whose bytes are not valid UTF-8
BadLine == <<"invalid-utf8">>
Decodes(line) == line # BadLine

\* the stderr lines of the traced child
L_USED == LineOf(TRUE, <<Quoted(T_A)>>)
L_DEP == LineOf(TRUE, <<Quoted(T_B)>>)
L_OUTSIDE == LineOf(TRUE, <<Quoted(T_OUT)>>)
L_NOMTIME == LineOf(FALSE, <<Quoted(T_B)>>)
ErrPool == {L_USED, L_DEP, L_OUTSIDE, L_NOMTIME, BadLine}
\* the stdout lines of the traced child
L_PROGRESS == INFO
OutPool == {L_PROGRESS, BadLine}

\* ------------------------------------------------------------------------
\* CleanupStats (stats.rs)
\* ------------------------------------------------------------------------
EmptyMap == [k \in {} |-> 0]

\* CleanupStats::default()
EmptyStats ==
    [files |-> 0, bytes |-> 0, used_bytes |-> 0,
     per_crate |-> EmptyMap, per_profile |-> EmptyMap, errors |-> EmptyMap,
     files_to_remove |-> <<>>, dirs_to_remove |-> <<>>]

\* CrateStat::default(), ProfileStat::default()
ZeroCrate == [files |-> 0, bytes |-> 0]
ZeroProfile == [files |-> 0, bytes |-> 0, used_bytes |-> 0, total_dir_bytes |-> 0]

\* map.entry(k).or_default()
Entry(map, k, zero) == IF k \in DOMAIN map THEN map[k] ELSE zero

\* map with map[k] replaced by v (inserting k when absent)
Put(map, k, v) == [x \in (DOMAIN map) \cup {k} |-> IF x = k THEN v ELSE map[x]]

\* the two "for (name, stat) in other.per_*" loops of merge_from
MergeCrate(m, o) ==
    [k \in (DOMAIN m) \cup (DOMAIN o) |->
        LET a == Entry(m, k, ZeroCrate)
            b == Entry(o, k, ZeroCrate)
        IN [files |-> a.files + b.files, bytes |-> a.bytes + b.bytes]]

MergeProfile(m, o) ==
    [k \in (DOMAIN m) \cup (DOMAIN o) |->
        LET a == Entry(m, k, ZeroProfile)
            b == Entry(o, k, ZeroProfile)
        IN [files |-> a.files + b.files, bytes |-> a.bytes + b.bytes,
            used_bytes |-> a.used_bytes + b.used_bytes,
            total_dir_bytes |-> a.total_dir_bytes + b.total_dir_bytes]]

\* HashMap::extend: entries of o overwrite entries of m with the same key
Extend(m, o) ==
    [k \in (DOMAIN m) \cup (DOMAIN o) |-> IF k \in DOMAIN o THEN o[k] ELSE m[k]]

\* a plausible slip: "-=" typed for "+=" on the in-use byte counter
MergeFromSubtract(self, other) ==
    [files |-> self.files + other.files,
     bytes |-> self.bytes + other.bytes,
     used_bytes |-> self.used_bytes - other.used_bytes,
     per_crate |-> MergeCrate(self.per_crate, other.per_crate),
     per_profile |-> MergeProfile(self.per_profile, other.per_profile),
     errors |-> Extend(self.errors, other.errors),
     files_to_remove |-> self.files_to_remove \o other.files_to_remove,
     dirs_to_remove |-> self.dirs_to_remove \o other.dirs_to_remove]

\* a plausible slip: the receiver's byte counter is overwritten, not added to
MergeFromOverwriteBytes(self, other) ==
    [files |-> self.files + other.files,
     bytes |-> other.bytes,
     used_bytes |-> self.used_bytes + other.used_bytes,
     per_crate |-> MergeCrate(self.per_crate, other.per_crate),
     per_profile |-> MergeProfile(self.per_profile, other.per_profile),
     errors |-> Extend(self.errors, other.errors),
     files_to_remove |-> self.files_to_remove \o other.files_to_remove,
     dirs_to_remove |-> self.dirs_to_remove \o other.dirs_to_remove]

\* CleanupStats::merge_from(&mut self, other): the value of self afterwards
MergeFrom(self, other) ==
    [files |-> self.files + other.files,
     bytes |-> self.bytes + other.bytes,
     used_bytes |-> self.used_bytes + other.used_bytes,
     per_crate |-> MergeCrate(self.per_crate, other.per_crate),
     per_profile |-> MergeProfile(self.per_profile, other.per_profile),
     errors |-> Extend(self.errors, other.errors),
     files_to_remove |-> self.files_to_remove \o other.files_to_remove,
     dirs_to_remove |-> self.dirs_to_remove \o other.dirs_to_remove]

\* ------------------------------------------------------------------------
\* File names of the modelled output tree
\* ------------------------------------------------------------------------
RLIB == <<".", "r", "l", "i", "b">>
RMETA == <<".", "r", "m", "e", "t", "a">>
FOO_A1 == <<"f", "o", "o", "-", "a", "1">>
BAR_D4 == <<"b", "a", "r", "-", "d", "4">>
APP_C3 == <<"m", "y", "_", "a", "p", "p", "-", "c", "3">>

LibFooRlib == LIB \o FOO_A1 \o RLIB
LibFooRmeta == LIB \o FOO_A1 \o RMETA
\* a code-generation-unit object of foo-a1: no lib prefix, a chain of extensions
FooObj == FOO_A1 \o <<".", "f", "o", "o", ".", "0", ".", "r", "c", "g", "u", ".", "o">>
LibBarRlib == LIB \o BAR_D4 \o RLIB
AppDep == APP_C3 \o <<".", "d">>
\* the final executable in the profile root: cargo names it with the hyphen
AppBin == <<"m", "y", "-", "a", "p", "p">>
ReadmeTxt == <<"R", "E", "A", "D", "M", "E", ".", "t", "x", "t">>
LibSerdeRlib == LIB \o <<"s", "e", "r", "d", "e">> \o RLIB
\* an object of an older build of foo (another hash)
FooOldObj == <<"f", "o", "o", "-", "b", "2", ".", "o">>
\* an older build of the root crate (another hash)
AppOldDep == <<"m", "y", "_", "a", "p", "p", "-", "z", "9", ".", "d">>

\* String::from("incremental"): the crate key of a directory's error entry
INCREMENTAL == <<"i", "n", "c", "r", "e", "m", "e", "n", "t", "a", "l">>

Profiles == {"debug", "release"}

\* <target>/<profile>/<area>/<name>; area "root" is the profile directory itself
PathOf(profile, area, name) == <<profile, area, name>>
ProfileOf(path) == path[1]
AreaOf(path) == path[2]
NameOf(path) == path[3]

\* ------------------------------------------------------------------------
\* The filesystem as the program sees it
\*   files    : path of a regular file -> its size (metadata len)
\*   sessions : path of a directory below <profile>/incremental ->
\*              [mtime, size] (modification time, recursive size)
\* ------------------------------------------------------------------------
\* size a file of this name is written with
SizeOfName(name) == 1 + (Len(name) % MaxSize)

\* the order read_dir (and the iteration of a HashSet/HashMap) yields entries
\* in is unspecified: the model draws it from these orders of NameOrder
DirOrders == {"asc", "desc"}

S_APP1 == <<"m", "y", "_", "a", "p", "p", "-", "1">>
S_APP2 == <<"m", "y", "_", "a", "p", "p", "-", "2">>
S_FOO3 == <<"f", "o", "o", "-", "3">>
S_APP4 == <<"m", "y", "_", "a", "p", "p", "-", "4">>
S_APP5 == <<"m", "y", "_", "a", "p", "p", "-", "5">>
\* a crate whose name itself has a hyphen, and a directory without any
S_AB6 == <<"a", "-", "b", "-", "6">>
S_AB7 == <<"a", "-", "b", "-", "7">>
S_AB == <<"a", "-", "b">>
S_PLAIN == <<"a">>

NameOrder ==
    <<LibFooRlib, LibFooRmeta, FooObj, LibBarRlib, AppDep, AppBin, ReadmeTxt,
      LibSerdeRlib, FooOldObj, AppOldDep,
      S_APP1, S_APP2, S_FOO3, S_APP4, S_APP5, S_AB6, S_AB7, S_AB, S_PLAIN>>

Reverse(s) == [i \in 1..Len(s) |-> s[Len(s) + 1 - i]]

\* the names of the entries of directory <profile>/<area>, as read_dir yields them
ReadDir(paths, profile, area, ord) ==
    LET InDir(n) == PathOf(profile, area, n) \in paths
        listing == SelectSeq(NameOrder, InDir)
    IN IF ord = "asc" THEN listing ELSE Reverse(listing)

RECURSIVE SumSizes(_, _)
\* sum of f[p].size ... over a set of keys of a function to numbers
SumSizes(f, keys) ==
    IF keys = {} THEN 0
    ELSE LET k == CHOOSE x \in keys : TRUE
         IN f[k] + SumSizes(f, keys \ {k})

\* scan.rs dir_size_bytes(<target>/<profile>): every regular file below it
DirSizeBytes(fl, ss, profile) ==
    LET fk == {p \in DOMAIN fl : ProfileOf(p) = profile}
        sk == {p \in DOMAIN ss : ProfileOf(p) = profile}
        ssize == [p \in sk |-> ss[p].size]
    IN SumSizes(fl, fk) + SumSizes(ssize, sk)

\* ------------------------------------------------------------------------
\* LivenessCorrelator: clean_with_trace_result (clean/mod.rs)
\* ------------------------------------------------------------------------
\* stems of the traced paths whose parent is this deps directory
\* stems taken from the traced paths of every directory
UsedStemsAnyDir(used_artifacts, profile) ==
    {ArtifactStem(NameOf(a)) : a \in {x \in used_artifacts : AreaOf(x) = "deps"}} \ {None}

\* used_stems: "filter(|p| p.parent() == Some(dir))", then artifact_stem
UsedStems(used_artifacts, profile) ==
    {ArtifactStem(NameOf(a)) :
        a \in {x \in used_artifacts : ProfileOf(x) = profile /\ AreaOf(x) = "deps"}} \ {None}

\* names derived from the files directly in the profile directory
ProtectedCrateNamesNoNormalize(fl, profile) ==
    {StripLib(FileStem(NameOf(p))) :
        p \in {x \in DOMAIN fl : ProfileOf(x) = profile /\ AreaOf(x) = "root"}}

ProtectedCrateNames(fl, profile) ==
    {ReplaceHyphen(StripLib(FileStem(NameOf(p)))) :
        p \in {x \in DOMAIN fl : ProfileOf(x) = profile /\ AreaOf(x) = "root"}}

\* the two "keep" branches: used_bytes and the profile's used_bytes grow by sz
AddKept(st, profile, sz) ==
    LET e == Entry(st.per_profile, profile, ZeroProfile)
    IN [st EXCEPT !.used_bytes = @ + sz,
                  !.per_profile = Put(@, profile, [e EXCEPT !.used_bytes = @ + sz])]

\* the "Unused - mark for removal" branch
AddCandidate(st, path, size, profile) ==
    LET ck == CrateKey(NameOf(path))
        c == Entry(st.per_crate, ck, ZeroCrate)
        e == Entry(st.per_profile, profile, ZeroProfile)
    IN [st EXCEPT !.files_to_remove = Append(@, [path |-> path, size |-> size, profile |-> profile]),
                  !.files = @ + 1,
                  !.bytes = @ + size,
                  !.per_crate = Put(@, ck, [files |-> c.files + 1, bytes |-> c.bytes + size]),
                  !.per_profile = Put(@, profile, [e EXCEPT !.files = @ + 1, !.bytes = @ + size])]

\* a plausible slip: used_stems is probed with the crate key, not the stem
ScanEntryCrateKeyLookup(st, path, size, used_stems, protected, profile) ==
    LET stem == ArtifactStem(NameOf(path))
    IN IF stem = None THEN st
       ELSE IF CrateKey(NameOf(path)) \in used_stems THEN AddKept(st, profile, size)
       ELSE IF CrateKey(NameOf(path)) \in protected THEN AddKept(st, profile, size)
       ELSE AddCandidate(st, path, size, profile)

\* a plausible slip: a name without a stem falls through to the kept branch
ScanEntryKeepUnrecognized(st, path, size, used_stems, protected, profile) ==
    LET stem == ArtifactStem(NameOf(path))
    IN IF stem = None \/ stem \in used_stems THEN AddKept(st, profile, size)
       ELSE IF CrateKey(NameOf(path)) \in protected THEN AddKept(st, profile, size)
       ELSE AddCandidate(st, path, size, profile)

\* one iteration of "while let Some(entry) = entries.next_entry()"
\* a scan whose decision looks at what was found before the entry
ScanEntryAfterFirst(st, path, size, used_stems, protected, profile) ==
    LET stem == ArtifactStem(NameOf(path))
    IN IF stem = None THEN st
       ELSE IF stem \in used_stems THEN AddKept(st, profile, size)
       ELSE IF CrateKey(NameOf(path)) \in protected THEN AddKept(st, profile, size)
       ELSE IF st.files_to_remove # <<>> THEN AddKept(st, profile, size)
       ELSE AddCandidate(st, path, size, profile)

ScanEntry(st, path, size, used_stems, protected, profile) ==
    LET stem == ArtifactStem(NameOf(path))
    IN IF stem = None THEN st
       ELSE IF stem \in used_stems THEN AddKept(st, profile, size)
       ELSE IF CrateKey(NameOf(path)) \in protected THEN AddKept(st, profile, size)
       ELSE AddCandidate(st, path, size, profile)

RECURSIVE ScanEntries(_, _, _, _, _, _, _)
ScanEntries(st, names, i, fl, used_stems, protected, profile) ==
    IF i > Len(names) THEN st
    ELSE LET path == PathOf(profile, "deps", names[i])
         IN ScanEntries(ScanEntry(st, path, fl[path], used_stems, protected, profile),
                        names, i + 1, fl, used_stems, protected, profile)

CleanWithTraceResult(fl, used_artifacts, profile, ord) ==
    ScanEntries(EmptyStats, ReadDir(DOMAIN fl, profile, "deps", ord), 1, fl,
                UsedStems(used_artifacts, profile),
                ProtectedCrateNames(fl, profile), profile)

\* ------------------------------------------------------------------------
\* IncrementalSessionReducer: clean_incremental_dir (clean/mod.rs)
\* ------------------------------------------------------------------------
\* the part of a directory name before its last '-', the whole name without one
SessionCrate(dir_name) ==
    LET pos == RFind(dir_name, "-")
    IN IF pos = 0 THEN dir_name ELSE SubSeq(dir_name, 1, pos - 1)

\* by_crate[crate]: the sessions of one crate in enumeration order
GroupOf(ss, names, profile, crate) ==
    LET Mine(n) == SessionCrate(n) = crate
        mine == SelectSeq(names, Mine)
    IN [i \in 1..Len(mine) |->
          [path |-> PathOf(profile, "incremental", mine[i]),
           mtime |-> ss[PathOf(profile, "incremental", mine[i])].mtime]]

\* the crates in the order the iteration of by_crate yields them
RECURSIVE GroupKeys(_, _, _)
GroupKeys(names, i, seen) ==
    IF i > Len(names) THEN <<>>
    ELSE LET k == SessionCrate(names[i])
         IN IF k \in seen THEN GroupKeys(names, i + 1, seen)
            ELSE <<k>> \o GroupKeys(names, i + 1, seen \cup {k})

\* insert x behind every element that is as new or newer (a stable sort step)
RECURSIVE InsertNewestFirst(_, _)
InsertNewestFirst(sorted, x) ==
    IF sorted = <<>> THEN <<x>>
    ELSE IF Head(sorted).mtime >= x.mtime
         THEN <<Head(sorted)>> \o InsertNewestFirst(Tail(sorted), x)
         ELSE <<x>> \o sorted

RECURSIVE InsertOldestFirst(_, _)
InsertOldestFirst(sorted, x) ==
    IF sorted = <<>> THEN <<x>>
    ELSE IF Head(sorted).mtime <= x.mtime
         THEN <<Head(sorted)>> \o InsertOldestFirst(Tail(sorted), x)
         ELSE <<x>> \o sorted

RECURSIVE SortOldestFirstFrom(_, _, _)
SortOldestFirstFrom(sessions_, i, acc) ==
    IF i > Len(sessions_) THEN acc
    ELSE SortOldestFirstFrom(sessions_, i + 1, InsertOldestFirst(acc, sessions_[i]))

\* a plausible slip: a.1.cmp(&b.1), which sorts the oldest session first
SortOldestFirst(sessions_) == SortOldestFirstFrom(sessions_, 1, <<>>)

RECURSIVE SortNewestFirstFrom(_, _, _)
SortNewestFirstFrom(sessions_, i, acc) ==
    IF i > Len(sessions_) THEN acc
    ELSE SortNewestFirstFrom(sessions_, i + 1, InsertNewestFirst(acc, sessions_[i]))

\* sessions.sort_by(|a, b| b.1.cmp(&a.1)): stable, newest first
SortNewestFirst(sessions_) == SortNewestFirstFrom(sessions_, 1, <<>>)

\* the body of "for (path, _) in sessions.into_iter().skip(1)"
\* a stale session listed without being counted
AddStaleDirUncounted(st, path, size, profile) ==
    [st EXCEPT !.dirs_to_remove = Append(@, [path |-> path, size |-> size, profile |-> profile])]

AddStaleDir(st, path, size, profile) ==
    LET e == Entry(st.per_profile, profile, ZeroProfile)
    IN [st EXCEPT !.dirs_to_remove = Append(@, [path |-> path, size |-> size, profile |-> profile]),
                  !.files = @ + 1,
                  !.bytes = @ + size,
                  !.per_profile = Put(@, profile, [e EXCEPT !.files = @ + 1, !.bytes = @ + size])]

RECURSIVE MarkStale(_, _, _, _, _)
MarkStale(st, sorted, i, ss, profile) ==
    IF i > Len(sorted) THEN st
    ELSE MarkStale(AddStaleDir(st, sorted[i].path, ss[sorted[i].path].size, profile),
                   sorted, i + 1, ss, profile)

\* "for (_crate_name, mut sessions) in by_crate"
RECURSIVE ReduceGroups(_, _, _, _, _, _)
ReduceGroups(st, keys, i, ss, names, profile) ==
    IF i > Len(keys) THEN st
    ELSE LET group == GroupOf(ss, names, profile, keys[i])
             next == IF Len(group) <= 1 THEN st
                     ELSE MarkStale(st, SortNewestFirst(group), 2, ss, profile)
         IN ReduceGroups(next, keys, i + 1, ss, names, profile)

\* ord: the order of read_dir; hord: the order by_crate is iterated in
CleanIncrementalDir(ss, profile, ord, hord) ==
    LET names == ReadDir(DOMAIN ss, profile, "incremental", ord)
        keys == GroupKeys(ReadDir(DOMAIN ss, profile, "incremental", hord), 1, {})
    IN ReduceGroups(EmptyStats, keys, 1, ss, names, profile)

\* ------------------------------------------------------------------------
\* remove_unused_files_with_trace: the scan of every traced deps directory
\* ------------------------------------------------------------------------
ProfileOrder == <<"debug", "release">>

\* a scan of the deps directory of every profile
ScanDirsEveryProfile(used_artifacts, ord) ==
    IF ord = "asc" THEN ProfileOrder ELSE Reverse(ProfileOrder)

\* scan_dirs: the deps directories that are the parent of a traced artifact,
\* in the order the iteration of the used_artifacts HashSet finds them
ScanDirs(used_artifacts, ord) ==
    LET Traced(p) == \E a \in used_artifacts : ProfileOf(a) = p /\ AreaOf(a) = "deps"
        dirs == SelectSeq(ProfileOrder, Traced)
    IN IF ord = "asc" THEN dirs ELSE Reverse(dirs)

\* deps_dir.exists()
DepsExists(fl, profile) ==
    \E p \in DOMAIN fl : ProfileOf(p) = profile /\ AreaOf(p) = "deps"

\* the body of "for (deps_dir, display_profile) in &scan_dirs": profile_stats
ScanProfile(fl, ss, used_artifacts, profile, ord) ==
    LET scanned == CleanWithTraceResult(fl, used_artifacts, profile, ord)
        e == Entry(scanned.per_profile, profile, ZeroProfile)
        with_total == [scanned EXCEPT !.per_profile =
                          Put(@, profile, [e EXCEPT !.total_dir_bytes = DirSizeBytes(fl, ss, profile)])]
    IN MergeFrom(with_total, CleanIncrementalDir(ss, profile, ord, ord))

RECURSIVE ScanAll(_, _, _, _, _, _, _)
ScanAll(st, dirs, i, fl, ss, used_artifacts, ord) ==
    IF i > Len(dirs) THEN st
    ELSE IF ~DepsExists(fl, dirs[i])
         THEN ScanAll(st, dirs, i + 1, fl, ss, used_artifacts, ord)
         ELSE ScanAll(MergeFrom(st, ScanProfile(fl, ss, used_artifacts, dirs[i], ord)),
                      dirs, i + 1, fl, ss, used_artifacts, ord)

\* ------------------------------------------------------------------------
\* RemovalExecutor: actually_remove_files (clean/mod.rs)
\* ------------------------------------------------------------------------
\* the io::Error of a deletion that fails
RemoveError == "PermissionDenied"

\* Ok(_) arm of a deletion: the new stats' counters grow
CountRemovedFile(rs, info) ==
    LET ck == CrateKey(NameOf(info.path))
        c == Entry(rs.per_crate, ck, ZeroCrate)
        e == Entry(rs.per_profile, info.profile, ZeroProfile)
    IN [rs EXCEPT !.files = @ + 1,
                  !.bytes = @ + info.size,
                  !.per_crate = Put(@, ck, [files |-> c.files + 1, bytes |-> c.bytes + info.size]),
                  !.per_profile = Put(@, info.profile,
                                      [e EXCEPT !.files = @ + 1, !.bytes = @ + info.size])]

CountRemovedDir(rs, info) ==
    LET e == Entry(rs.per_profile, info.profile, ZeroProfile)
    IN [rs EXCEPT !.files = @ + 1,
                  !.bytes = @ + info.size,
                  !.per_profile = Put(@, info.profile,
                                      [e EXCEPT !.files = @ + 1, !.bytes = @ + info.size])]

\* Err(e) arm: errors.insert((crate key, profile, path), e)
RecordError(rs, ck, info) ==
    [rs EXCEPT !.errors = Put(@, <<ck, info.profile, info.path>>, RemoveError)]

\* The loops below carry [rs, tried, gone]: the removal_stats built so far,
\* the paths passed to remove_file / remove_dir_all, and those deleted.
NoRemoval == [rs |-> EmptyStats, tried |-> {}, gone |-> {}]

\* one iteration of "for file_info in stats.files_to_remove"
RemoveOneFile(acc, info, failing) ==
    IF info.path \in failing
    THEN [acc EXCEPT !.rs = RecordError(@, CrateKey(NameOf(info.path)), info),
                     !.tried = @ \cup {info.path}]
    ELSE [acc EXCEPT !.rs = CountRemovedFile(@, info),
                     !.tried = @ \cup {info.path},
                     !.gone = @ \cup {info.path}]

\* one iteration of "for dir_info in stats.dirs_to_remove"
RemoveOneDir(acc, info, failing) ==
    IF info.path \in failing
    THEN [acc EXCEPT !.rs = RecordError(@, INCREMENTAL, info),
                     !.tried = @ \cup {info.path}]
    ELSE [acc EXCEPT !.rs = CountRemovedDir(@, info),
                     !.tried = @ \cup {info.path},
                     !.gone = @ \cup {info.path}]

\* a plausible slip: the first failure is propagated with "?", which ends
\* the loop
RECURSIVE RemoveFilesAbort(_, _, _, _)
RemoveFilesAbort(acc, list, i, failing) ==
    IF i > Len(list) THEN acc
    ELSE IF list[i].path \in failing
         THEN RemoveOneFile(acc, list[i], failing)
         ELSE RemoveFilesAbort(RemoveOneFile(acc, list[i], failing), list, i + 1, failing)

\* a plausible slip: the item is counted before its deletion is attempted
RECURSIVE RemoveFilesCountFirst(_, _, _, _)
RemoveFilesCountFirst(acc, list, i, failing) ==
    IF i > Len(list) THEN acc
    ELSE LET counted == [acc EXCEPT !.rs = CountRemovedFile(@, list[i])]
             next == IF list[i].path \in failing
                     THEN RemoveOneFile(counted, list[i], failing)
                     ELSE [counted EXCEPT !.tried = @ \cup {list[i].path},
                                          !.gone = @ \cup {list[i].path}]
         IN RemoveFilesCountFirst(next, list, i + 1, failing)

\* "for file_info in stats.files_to_remove": failing is the set of paths whose
\* deletion the operating system refuses
RECURSIVE RemoveFiles(_, _, _, _)
RemoveFiles(acc, list, i, failing) ==
    IF i > Len(list) THEN acc
    ELSE RemoveFiles(RemoveOneFile(acc, list[i], failing), list, i + 1, failing)

\* "for dir_info in stats.dirs_to_remove"
RECURSIVE RemoveDirs(_, _, _, _)
RemoveDirs(acc, list, i, failing) ==
    IF i > Len(list) THEN acc
    ELSE RemoveDirs(RemoveOneDir(acc, list[i], failing), list, i + 1, failing)

\* a directory loop that ignores the selection
SelectedDirsAlways(st, sel) == st.dirs_to_remove

\* the items the two loops visit: .filter(|_| sel.remove_files / remove_dirs)
SelectedFiles(st, sel) == IF sel.remove_files THEN st.files_to_remove ELSE <<>>
SelectedDirs(st, sel) == IF sel.remove_dirs THEN st.dirs_to_remove ELSE <<>>

\* actually_remove_files: .rs is the returned removal_stats
ActuallyRemoveFiles(st, sel, failing) ==
    RemoveDirs(RemoveFiles(NoRemoval, SelectedFiles(st, sel), 1, failing),
               SelectedDirs(st, sel), 1, failing)

\* ------------------------------------------------------------------------
\* The traced build (cargo), as tests/idempotent_clean_test.rs describes it
\* ------------------------------------------------------------------------
\* compiled units of the project: two dependencies and the root executable
UnitFileNames(u) ==
    CASE u = "foo" -> {<<"deps", LibFooRlib>>, <<"deps", LibFooRmeta>>, <<"deps", FooObj>>}
      [] u = "bar" -> {<<"deps", LibBarRlib>>}
      [] u = "app" -> {<<"deps", AppDep>>, <<"root", AppBin>>}

\* the artifacts of a unit the fingerprint log names in its mtime lines: the
\* archive and metadata of a dependency; nothing depends on the root unit
UnitLoggedNames(u) ==
    CASE u = "foo" -> {<<"deps", LibFooRlib>>, <<"deps", LibFooRmeta>>}
      [] u = "bar" -> {<<"deps", LibBarRlib>>}
      [] u = "app" -> {}

UnitPaths(pu) == {PathOf(pu[1], an[1], an[2]) : an \in UnitFileNames(pu[2])}
UnitLogged(pu) == {PathOf(pu[1], an[1], an[2]) : an \in UnitLoggedNames(pu[2])}

\* the units of the build that cargo has to compile: an output file is missing
Dirty(fl, units) == {pu \in units : ~(UnitPaths(pu) \subseteq DOMAIN fl)}

\* the tree after the build wrote the outputs of the units it compiled
AfterBuild(fl, compiled) ==
    LET written == UNION {UnitPaths(pu) : pu \in compiled}
    IN [p \in (DOMAIN fl) \cup written |->
          IF p \in DOMAIN fl THEN fl[p] ELSE SizeOfName(NameOf(p))]

\* the tree without the given paths
Without(f, gone) == [p \in (DOMAIN f) \ gone |-> f[p]]

\* ------------------------------------------------------------------------
\* State
\* ------------------------------------------------------------------------
VARIABLES
    files,           \* regular files of the output tree: path -> size
    sessions,        \* incremental session directories: path -> [mtime, size]
    units,           \* <<profile, unit>> pairs the build command builds
    pc,              \* position of CleanCommand::run
    cycle,           \* number of the current invocation of the tool
    used_artifacts,  \* TraceResult.used_artifacts
    recompiled,      \* units the traced build compiled
    total_stats,     \* the merged scan result of run
    cli,             \* the --yes and --dry-run flags of the invocation
    selection,       \* RemovalSelection
    removal_stats,   \* the result of actually_remove_files
    attempted,       \* paths actually_remove_files was asked to delete
    prev,            \* how the previous invocation ended
    m,               \* operands and results of merge_from (merge algebra)
    guard,           \* CARGO_TARGET_DIR and --allow-shared-target-dir of the invocation
    tracer,          \* TraceParser::trace: the child, its pipes and the read loop
    calls            \* arguments and values of operations applied on their own

vars == <<files, sessions, units, pc, cycle, used_artifacts, recompiled, total_stats,
          cli, selection, removal_stats, attempted, prev, m, guard, tracer, calls>>

runVars == <<files, sessions, units, pc, cycle, used_artifacts, recompiled, total_stats,
             cli, selection, removal_stats, attempted, prev, guard, tracer, calls>>

\* everything but the tracer
traceFrame == <<files, sessions, units, pc, cycle, used_artifacts, recompiled, total_stats,
                cli, selection, removal_stats, attempted, prev, guard, m, calls>>

NoSelection == [remove_files |-> FALSE, remove_dirs |-> FALSE]
NoFlags == [yes |-> FALSE, dry_run |-> FALSE]

\* RemovalSelection::any
SelAny(sel) == sel.remove_files \/ sel.remove_dirs

\* the environment variable CARGO_TARGET_DIR is unset and the flag not given
\* and the output root exists with readable deps directories
NoGuard == [target_dir_set |-> FALSE, allow |-> FALSE, target_exists |-> TRUE,
            deps_readable |-> TRUE]

\* a scan of one tree under two used_by maps and two enumeration orders
NoScans == [used_by_a |-> EmptyMap, used_by_b |-> EmptyMap, ord_a |-> "asc", ord_b |-> "asc",
            stats_a |-> EmptyStats, stats_b |-> EmptyStats,
            deps_a |-> EmptyStats, deps_b |-> EmptyStats]

\* no operation applied yet
NoCalls == [op |-> "none", name |-> <<>>, stem |-> None, key |-> None, scans |-> NoScans]

\* what trace handed to its caller: nothing yet
NoReturn == [kind |-> "none", available |-> FALSE, used_artifacts |-> {}]

\* the tracer before the child is spawned
IdleTrace ==
    [pc |-> "idle",           \* position of trace: idle, loop, wait, returned
     script |-> <<>>,         \* the writes of the child, in its program order
     next |-> 1,              \* index of the child's next write
     close_first |-> "out",   \* the stream the child closes first
     out |-> <<>>,            \* lines in the stdout pipe
     err |-> <<>>,            \* lines in the stderr pipe
     out_open |-> TRUE,       \* the child holds the write end of stdout
     err_open |-> TRUE,       \* the child holds the write end of stderr
     child |-> "none",        \* none, running, exited
     code |-> 0,              \* exit status of the child
     out_eof |-> FALSE,       \* next_line of stdout has returned None
     err_eof |-> FALSE,       \* next_line of stderr has returned None
     consumed |-> {},         \* indices of the script whose line next_line returned
     result |-> {},           \* result.used_artifacts
     taken |-> {},            \* <<line, path>> pairs inserted into the result
     ret |-> NoReturn,        \* what trace returned
     line |-> <<>>,           \* argument of extract_artifact_path
     got |-> None]            \* value of extract_artifact_path

IdleMerge == [a |-> EmptyStats, b |-> EmptyStats, c |-> EmptyStats, done |-> {},
              ab |-> EmptyStats, ba |-> EmptyStats, bc |-> EmptyStats,
              left |-> EmptyStats, right |-> EmptyStats]

\* ------------------------------------------------------------------------
\* Initial output trees
\* ------------------------------------------------------------------------
\* files that may lie in debug/deps besides the outputs of the units
ExtraPool == {ReadmeTxt, LibSerdeRlib, FooOldObj, AppOldDep}

SessionSeq ==
    <<[name |-> S_APP1, mtime |-> 1, size |-> 2],
      [name |-> S_APP2, mtime |-> 2, size |-> 1],
      [name |-> S_FOO3, mtime |-> 1, size |-> 3],
      [name |-> S_APP4, mtime |-> 2, size |-> 2],
      [name |-> S_APP5, mtime |-> 3, size |-> 1]>>

Min(a, b) == IF a < b THEN a ELSE b

\* the first k session directories of SessionSeq below <profile>/incremental
SessionsOf(profile, k) ==
    [p \in {PathOf(profile, "incremental", SessionSeq[i].name) : i \in 1..k} |->
        LET i == CHOOSE j \in 1..k : SessionSeq[j].name = NameOf(p)
        IN [mtime |-> SessionSeq[i].mtime, size |-> SessionSeq[i].size]]

SizedFiles(paths) == [p \in paths |-> SizeOfName(NameOf(p))]

\* the release profile: a complete earlier build plus one stale archive
ReleaseFiles ==
    {PathOf("release", "deps", n) : n \in {LibFooRlib, LibFooRmeta, FooObj, LibBarRlib, AppDep}}
        \cup {PathOf("release", "root", AppBin)}

DebugFiles(fooState, barState, extras) ==
    {PathOf("debug", "deps", AppDep), PathOf("debug", "root", AppBin),
     PathOf("debug", "deps", FooObj)}
        \cup (IF fooState = "fresh"
              THEN {PathOf("debug", "deps", LibFooRlib), PathOf("debug", "deps", LibFooRmeta)}
              ELSE {})
        \cup (IF barState \in {"fresh", "stale"} THEN {PathOf("debug", "deps", LibBarRlib)} ELSE {})
        \cup {PathOf("debug", "deps", n) : n \in extras}

InitRun ==
    /\ \E fooState \in {"fresh", "missing"},
          barState \in {"fresh", "missing", "stale", "absent"},
          extras \in {x \in SUBSET ExtraPool : Cardinality(x) <= MaxExtra},
          k \in 0..Min(MaxSessions, Len(SessionSeq)),
          releaseBuilt \in BOOLEAN :
        /\ files = SizedFiles(DebugFiles(fooState, barState, extras) \cup ReleaseFiles)
        /\ sessions = SessionsOf("debug", k) @@ SessionsOf("release", Min(k, 2))
        /\ units = {<<"debug", "foo">>, <<"debug", "app">>}
                     \cup (IF barState \in {"fresh", "missing"} THEN {<<"debug", "bar">>} ELSE {})
                     \cup (IF releaseBuilt THEN {<<"release", "foo">>, <<"release", "app">>} ELSE {})
    /\ pc = "start"
    /\ cycle = 1
    /\ used_artifacts = {}
    /\ recompiled = {}
    /\ total_stats = EmptyStats
    /\ cli = NoFlags
    /\ selection = NoSelection
    /\ removal_stats = EmptyStats
    /\ attempted = {}
    /\ prev = "none"

Init == InitRun /\ m = IdleMerge /\ guard = NoGuard /\ tracer = IdleTrace /\ calls = NoCalls

\* the same runs on fewer trees, with CARGO_TARGET_DIR set or unset and
\* --allow-shared-target-dir given or not
InitGuard ==
    /\ InitRun
    /\ PathOf("debug", "deps", LibFooRlib) \in DOMAIN files
    /\ DOMAIN files \cap {PathOf("debug", "deps", n) : n \in ExtraPool} = {}
    /\ Cardinality(DOMAIN sessions) \in {0, 4}
    /\ m = IdleMerge
    /\ guard \in [target_dir_set : BOOLEAN, allow : BOOLEAN, target_exists : {TRUE},
                  deps_readable : {TRUE}]
    /\ tracer = IdleTrace
    /\ calls = NoCalls

\* runs in a project whose output root does not exist, and runs on a tree
\* whose deps directories cannot be read
InitTarget ==
    /\ guard \in {[NoGuard EXCEPT !.target_exists = FALSE],
                  [NoGuard EXCEPT !.deps_readable = FALSE], NoGuard}
    /\ IF guard.target_exists
       THEN InitRun
       ELSE /\ files = EmptyMap /\ sessions = EmptyMap
            /\ units \in {{<<"debug", "foo">>, <<"debug", "app">>},
                          {<<"debug", "foo">>, <<"debug", "bar">>, <<"debug", "app">>}}
            /\ pc = "start" /\ cycle = 1 /\ used_artifacts = {} /\ recompiled = {}
            /\ total_stats = EmptyStats /\ cli = NoFlags /\ selection = NoSelection
            /\ removal_stats = EmptyStats /\ attempted = {} /\ prev = "none"
    /\ m = IdleMerge
    /\ tracer = IdleTrace
    /\ calls = NoCalls

\* a run that goes on whatever the environment holds
SharedTargetGuardOff(target_dir_set, allow) == TRUE

\* run, "if let Ok(target_dir) = env::var("CARGO_TARGET_DIR")": whether run
\* goes on to the build command
SharedTargetGuard(target_dir_set, allow) == ~target_dir_set \/ allow

Guard ==
    /\ pc = "start"
    /\ pc' = IF SharedTargetGuard(guard.target_dir_set, guard.allow) THEN "guarded" ELSE "refused"
    /\ UNCHANGED <<files, sessions, units, cycle, used_artifacts, recompiled, total_stats,
                   cli, selection, removal_stats, attempted, prev, m, guard, tracer, calls>>

\* remove_unused_files_of_cargo, "if !target_dir.exists()": a warning and
\* Ok(CleanupStats::default()), which run folds and reports as a clean tree
TargetCheck ==
    /\ pc = "guarded"
    /\ pc' = IF guard.target_exists THEN "checked" ELSE "clean"
    /\ UNCHANGED <<files, sessions, units, cycle, used_artifacts, recompiled, total_stats,
                   cli, selection, removal_stats, attempted, prev, m, guard, tracer, calls>>

\* a trace that hands over its result whatever the exit status
TraceReturnIgnoreStatus(code, result) ==
    [kind |-> "ok", available |-> TRUE, used_artifacts |-> result]

\* the end of trace: "if !status.success() { bail!(..) }  Ok(result)"
TraceReturn(code, result) ==
    IF code # 0 THEN [kind |-> "status", available |-> FALSE, used_artifacts |-> {}]
    ELSE [kind |-> "ok", available |-> TRUE, used_artifacts |-> result]

\* ------------------------------------------------------------------------
\* CleanCommand::run, one action per phase
\* ------------------------------------------------------------------------
\* TraceParser::trace: the build command runs to its exit, its mtime lines
\* are collected; a non-zero exit status makes trace return an error
Trace ==
    /\ pc = "checked"
    /\ LET dirty == Dirty(files, units)
           fresh == units \ dirty
       IN \E ok \in BOOLEAN, logged \in SUBSET {pu \in dirty : UnitLogged(pu) # {}} :
            LET code == IF ok THEN 0 ELSE 1
                collected == UNION {UnitLogged(pu) : pu \in fresh \cup logged}
                ret == TraceReturn(code, collected)
            IN /\ ok \/ logged = {}
               /\ files' = IF ok THEN AfterBuild(files, dirty) ELSE files
               /\ recompiled' = IF ok THEN dirty ELSE {}
               /\ tracer' = [IdleTrace EXCEPT !.pc = "returned", !.child = "exited", !.code = code,
                                         !.result = collected, !.ret = ret]
               \* "parser.trace(..).await.context(..)?"
               /\ used_artifacts' = ret.used_artifacts
               /\ pc' = IF ret.kind = "ok" THEN "traced" ELSE "error"
    /\ UNCHANGED <<sessions, units, cycle, total_stats, cli, selection, removal_stats,
                   attempted, prev, m, guard, calls>>

\* a scan that takes as used only the artifacts with a known consumer
ScanInputWithConsumers(trace_result) ==
    {a \in trace_result.used_artifacts : a \in DOMAIN trace_result.used_by}

\* what the scans take from the trace result: "&trace_result.used_artifacts";
\* used_by goes to the printed breakdown only
ScanInput(trace_result) == trace_result.used_artifacts

\* remove_unused_files_with_trace after the trace
ScanRun(trace_result, fl, ss, ord) ==
    ScanAll(EmptyStats, ScanDirs(ScanInput(trace_result), ord), 1,
            fl, ss, ScanInput(trace_result), ord)

\* a scan that deletes the candidates as it finds them
ScanWritesDeleting(f, st) ==
    Without(f, {i.path : i \in Range(st.files_to_remove) \cup Range(st.dirs_to_remove)})

\* a scan that truncates the files it keeps
ScanWritesTruncating(f, st) ==
    [x \in DOMAIN f |->
        IF x \in {i.path : i \in Range(st.files_to_remove) \cup Range(st.dirs_to_remove)}
           \/ AreaOf(x) # "deps"
        THEN f[x] ELSE 0]

\* the files (or the session directories) after the scans: read_dir,
\* metadata and exists change nothing
ScanWrites(f, st) == f

\* "fs::read_dir(dir).await?" in clean_with_trace_result fails when a deps
\* directory that exists cannot be read
ReadDirFails(env, fl, used) ==
    /\ ~env.deps_readable
    /\ \E i \in 1..Len(ScanDirs(used, "asc")) : DepsExists(fl, ScanDirs(used, "asc")[i])

\* remove_unused_files_with_trace after the trace, then the fold in run and
\* the early return on "total_stats.files == 0"
Scan ==
    /\ pc = "traced"
    /\ \E ord \in DirOrders :
         LET trace_result == [used_artifacts |-> used_artifacts, used_by |-> EmptyMap]
             scanned == ScanRun(trace_result, files, sessions, ord)
         IN IF ReadDirFails(guard, files, used_artifacts)
            THEN /\ pc' = "error"
                 /\ UNCHANGED <<files, sessions, total_stats>>
            ELSE /\ total_stats' = MergeFrom(EmptyStats, scanned)
                 /\ pc' = IF total_stats'.files = 0 THEN "clean" ELSE "scanned"
                 /\ files' = ScanWrites(files, scanned)
                 /\ sessions' = ScanWrites(sessions, scanned)
    /\ UNCHANGED <<units, cycle, used_artifacts, recompiled, cli, selection,
                   removal_stats, attempted, prev, m, guard, tracer, calls>>

\* prompt.rs prompt_step_by_step with the three answers typed at the prompts
PromptStepByStep(st, ans_files, ans_dirs, ans_confirm) ==
    LET asked == [remove_files |-> st.files_to_remove # <<>> /\ ans_files,
                  remove_dirs |-> st.dirs_to_remove # <<>> /\ ans_dirs]
    IN IF SelAny(asked) /\ ~ans_confirm THEN NoSelection ELSE asked

\* "let selection = if !self.yes { ... } else if !self.dry_run { ... } else { ... }"
Selection(flags, st, ans_files, ans_dirs, ans_confirm) ==
    IF ~flags.yes THEN PromptStepByStep(st, ans_files, ans_dirs, ans_confirm)
    ELSE IF ~flags.dry_run THEN [remove_files |-> TRUE, remove_dirs |-> TRUE]
    ELSE NoSelection

Select ==
    /\ pc = "scanned"
    /\ \E yes \in BOOLEAN, dry_run \in BOOLEAN,
          ans_files \in BOOLEAN, ans_dirs \in BOOLEAN, ans_confirm \in BOOLEAN :
         /\ cli' = [yes |-> yes, dry_run |-> dry_run]
         /\ selection' = Selection(cli', total_stats, ans_files, ans_dirs, ans_confirm)
         /\ pc' = IF SelAny(selection') THEN "selected" ELSE "dryrun"
    /\ UNCHANGED <<files, sessions, units, cycle, used_artifacts, recompiled, total_stats,
                   removal_stats, attempted, prev, m, guard, tracer, calls>>

\* actually_remove_files: every selected item is passed to remove_file or
\* remove_dir_all; the operating system refuses the paths in failing
Remove ==
    /\ pc = "selected"
    /\ \E failing \in {x \in SUBSET ({i.path : i \in Range(SelectedFiles(total_stats, selection))}
                                      \cup {i.path : i \in Range(SelectedDirs(total_stats, selection))}) :
                          Cardinality(x) <= MaxFail} :
         LET done == ActuallyRemoveFiles(total_stats, selection, failing)
         IN /\ removal_stats' = done.rs
            /\ attempted' = done.tried
            /\ files' = Without(files, done.gone)
            /\ sessions' = Without(sessions, done.gone)
    /\ pc' = "removed"
    /\ UNCHANGED <<units, cycle, used_artifacts, recompiled, total_stats, cli, selection,
                   prev, m, guard, tracer, calls>>

\* whether the invocation that just ended removed every candidate it found
FullClean ==
    /\ pc = "removed"
    /\ DOMAIN removal_stats.errors = {}
    /\ total_stats.files_to_remove = <<>> \/ selection.remove_files
    /\ total_stats.dirs_to_remove = <<>> \/ selection.remove_dirs

\* the tool is invoked again with the same build command on the tree as it is
NextCycle ==
    /\ pc \in {"clean", "dryrun", "removed", "error", "refused"}
    /\ cycle < MaxCycles
    /\ cycle' = cycle + 1
    /\ prev' = IF FullClean THEN "full" ELSE pc
    /\ pc' = "start"
    /\ used_artifacts' = {}
    /\ recompiled' = {}
    /\ total_stats' = EmptyStats
    /\ cli' = NoFlags
    /\ selection' = NoSelection
    /\ removal_stats' = EmptyStats
    /\ attempted' = {}
    /\ tracer' = IdleTrace
    /\ UNCHANGED <<files, sessions, units, m, guard, calls>>

Next == Guard \/ TargetCheck \/ Trace \/ Scan \/ Select \/ Remove \/ NextCycle

Spec == Init /\ [][Next]_vars

SpecGuard == InitGuard /\ [][Next]_vars

SpecTarget == InitTarget /\ [][Next]_vars

\* ------------------------------------------------------------------------
\* The merge algebra on its own: merge_from applied to three stats values
\* ------------------------------------------------------------------------
IdleRun ==
    /\ files = EmptyMap
    /\ sessions = EmptyMap
    /\ units = {}
    /\ cycle = 1
    /\ used_artifacts = {}
    /\ recompiled = {}
    /\ total_stats = EmptyStats
    /\ cli = NoFlags
    /\ selection = NoSelection
    /\ removal_stats = EmptyStats
    /\ attempted = {}
    /\ prev = "none"
    /\ guard = NoGuard

BarInfo(profile) ==
    [path |-> PathOf(profile, "deps", LibBarRlib), size |-> SizeOfName(LibBarRlib),
     profile |-> profile]

\* stats values as the scans and the removal executor produce them
StatsPool ==
    {EmptyStats,
     \* a deps scan: one kept file, one candidate
     AddCandidate(AddKept(EmptyStats, "debug", 3), BarInfo("debug").path,
                  BarInfo("debug").size, "debug"),
     \* a deps scan of another directory: one candidate
     AddCandidate(EmptyStats, PathOf("release", "deps", FooOldObj),
                  SizeOfName(FooOldObj), "release"),
     \* an incremental scan: one stale session
     AddStaleDir(EmptyStats, PathOf("debug", "incremental", S_APP1), 2, "debug"),
     \* a removal: one file removed, one deletion refused
     RecordError(CountRemovedFile(EmptyStats, BarInfo("release")),
                 CrateKey(LibBarRlib), BarInfo("debug")),
     \* a removal that found the same file already gone
     [EmptyStats EXCEPT !.errors =
         Put(EmptyMap, <<CrateKey(LibBarRlib), "debug", BarInfo("debug").path>>, "NotFound")]}

InitMerge ==
    /\ IdleRun
    /\ tracer = IdleTrace
    /\ calls = NoCalls
    /\ pc = "merge"
    /\ \E a \in StatsPool, b \in StatsPool, c \in StatsPool :
         m = [IdleMerge EXCEPT !.a = a, !.b = b, !.c = c]

MergeAB ==
    /\ pc = "merge" /\ "ab" \notin m.done
    /\ m' = [m EXCEPT !.ab = MergeFrom(m.a, m.b), !.done = @ \cup {"ab"}]
    /\ UNCHANGED runVars

MergeBA ==
    /\ pc = "merge" /\ "ba" \notin m.done
    /\ m' = [m EXCEPT !.ba = MergeFrom(m.b, m.a), !.done = @ \cup {"ba"}]
    /\ UNCHANGED runVars

MergeBC ==
    /\ pc = "merge" /\ "bc" \notin m.done
    /\ m' = [m EXCEPT !.bc = MergeFrom(m.b, m.c), !.done = @ \cup {"bc"}]
    /\ UNCHANGED runVars

MergeLeft ==
    /\ pc = "merge" /\ "ab" \in m.done /\ "left" \notin m.done
    /\ m' = [m EXCEPT !.left = MergeFrom(m.ab, m.c), !.done = @ \cup {"left"}]
    /\ UNCHANGED runVars

MergeRight ==
    /\ pc = "merge" /\ "bc" \in m.done /\ "right" \notin m.done
    /\ m' = [m EXCEPT !.right = MergeFrom(m.a, m.bc), !.done = @ \cup {"right"}]
    /\ UNCHANGED runVars

NextMerge == MergeAB \/ MergeBA \/ MergeBC \/ MergeLeft \/ MergeRight

SpecMerge == InitMerge /\ [][NextMerge]_vars

\* ------------------------------------------------------------------------
\* The incremental reducer on its own: clean_incremental_dir applied to one
\* <profile>/incremental directory
\* ------------------------------------------------------------------------
IncPool ==
    {[name |-> S_APP1, mtime |-> 1, size |-> 2],
     [name |-> S_APP2, mtime |-> 2, size |-> 1],
     [name |-> S_APP4, mtime |-> 2, size |-> 2],
     [name |-> S_APP5, mtime |-> 3, size |-> 1],
     [name |-> S_FOO3, mtime |-> 1, size |-> 3],
     [name |-> S_AB6, mtime |-> 2, size |-> 1],
     [name |-> S_AB7, mtime |-> 1, size |-> 2],
     [name |-> S_AB, mtime |-> 1, size |-> 1],
     [name |-> S_PLAIN, mtime |-> 2, size |-> 3]}

InitInc ==
    /\ \E chosen \in {x \in SUBSET IncPool : Cardinality(x) <= MaxSessions} :
         sessions = [p \in {PathOf("debug", "incremental", r.name) : r \in chosen} |->
                        LET r == CHOOSE x \in chosen : x.name = NameOf(p)
                        IN [mtime |-> r.mtime, size |-> r.size]]
    /\ files = EmptyMap
    /\ units = {}
    /\ pc = "inc"
    /\ cycle = 1
    /\ used_artifacts = {}
    /\ recompiled = {}
    /\ total_stats = EmptyStats
    /\ cli = NoFlags
    /\ selection = NoSelection
    /\ removal_stats = EmptyStats
    /\ attempted = {}
    /\ prev = "none"
    /\ m = IdleMerge
    /\ guard = NoGuard
    /\ tracer = IdleTrace
    /\ calls = NoCalls

IncScan ==
    /\ pc = "inc"
    /\ \E ord \in DirOrders, hord \in DirOrders :
         total_stats' = CleanIncrementalDir(sessions, "debug", ord, hord)
    /\ pc' = "inc_done"
    /\ UNCHANGED <<files, sessions, units, cycle, used_artifacts, recompiled, cli, selection,
                   removal_stats, attempted, prev, m, guard, tracer, calls>>

NextInc == IncScan

SpecInc == InitInc /\ [][NextInc]_vars

\* ------------------------------------------------------------------------
\* TraceParser::trace on its own: the spawned child, its two pipes and the
\* select loop (trace_parser.rs)
\* ------------------------------------------------------------------------
\* one write of the child: a line to stdout or to stderr
Ops == [stream : {"out"}, line : OutPool] \cup [stream : {"err"}, line : ErrPool]
Scripts == UNION {[1..n -> Ops] : n \in 0..MaxLines}

InitTrace ==
    /\ IdleRun
    /\ m = IdleMerge
    /\ calls = NoCalls
    /\ pc = "trace"
    /\ \E script \in Scripts, code \in {0, 1}, close_first \in {"out", "err"} :
         tracer = [IdleTrace EXCEPT !.pc = "loop", !.child = "running", !.script = script,
                                    !.code = code, !.close_first = close_first]

\* the lines in the pipe of a stream, as indices of the script
PipeOf(tr, stream) == IF stream = "out" THEN tr.out ELSE tr.err

\* the child writes its next line; the write blocks while the pipe is full
ChildWrite ==
    /\ pc = "trace" /\ tracer.child = "running"
    /\ tracer.next <= Len(tracer.script)
    /\ LET op == tracer.script[tracer.next]
       IN /\ Len(PipeOf(tracer, op.stream)) < PipeCap
          /\ tracer' = IF op.stream = "out"
                       THEN [tracer EXCEPT !.out = Append(@, tracer.next), !.next = @ + 1]
                       ELSE [tracer EXCEPT !.err = Append(@, tracer.next), !.next = @ + 1]
    /\ UNCHANGED traceFrame

\* after its last write the child closes its two streams, one after the other
ChildClose ==
    /\ pc = "trace" /\ tracer.child = "running"
    /\ tracer.next > Len(tracer.script)
    /\ tracer.out_open \/ tracer.err_open
    /\ LET stream == IF tracer.out_open /\ tracer.err_open THEN tracer.close_first
                     ELSE IF tracer.out_open THEN "out" ELSE "err"
       IN tracer' = IF stream = "out" THEN [tracer EXCEPT !.out_open = FALSE]
                    ELSE [tracer EXCEPT !.err_open = FALSE]
    /\ UNCHANGED traceFrame

ChildExit ==
    /\ pc = "trace" /\ tracer.child = "running"
    /\ ~tracer.out_open /\ ~tracer.err_open
    /\ tracer' = [tracer EXCEPT !.child = "exited"]
    /\ UNCHANGED traceFrame

\* "stdout_line?" and "stderr_line?" on a line that is not valid UTF-8:
\* trace returns the error
DecodeError(tr) ==
    [tr EXCEPT !.pc = "returned",
               !.ret = [kind |-> "io", available |-> FALSE, used_artifacts |-> {}]]

\* stdout_reader.next_line() is ready: a line is in the pipe or the pipe is
\* closed and empty
StdoutReady(tr) == tr.out # <<>> \/ ~tr.out_open

\* the stdout branch of select!: a line is discarded, None changes nothing
ReadStdout ==
    /\ pc = "trace" /\ tracer.pc = "loop"
    /\ StdoutReady(tracer)
    /\ tracer' =
         IF tracer.out # <<>>
         THEN LET i == Head(tracer.out)
                  popped == [tracer EXCEPT !.out = Tail(@)]
              IN IF ~Decodes(tracer.script[i].line) THEN DecodeError(popped)
                 ELSE [popped EXCEPT !.consumed = @ \cup {i}]
         ELSE [tracer EXCEPT !.out_eof = TRUE]
    /\ UNCHANGED traceFrame

\* "self.extract_artifact_path(&line)" for each line the child may write to
\* stderr
ArtifactOf == [line \in ErrPool |-> ExtractArtifactPath(line)]

\* a loop that reads stderr only once stdout has reached its end
StderrReadyAfterStdout(tr) == tr.out_eof /\ (tr.err # <<>> \/ ~tr.err_open)

\* stderr_reader.next_line() is ready
StderrReady(tr) == tr.err # <<>> \/ ~tr.err_open

\* the stderr branch of select!: the artifact of a line is inserted into the
\* result, None breaks the loop
ReadStderr ==
    /\ pc = "trace" /\ tracer.pc = "loop"
    /\ StderrReady(tracer)
    /\ tracer' =
         IF tracer.err # <<>>
         THEN LET i == Head(tracer.err)
                  line == tracer.script[i].line
                  popped == [tracer EXCEPT !.err = Tail(@)]
                  path == ArtifactOf[line]
              IN IF ~Decodes(line) THEN DecodeError(popped)
                 ELSE IF path # None
                      THEN [popped EXCEPT !.consumed = @ \cup {i}, !.line = line, !.got = path,
                                          !.result = @ \cup {path},
                                          !.taken = @ \cup {<<line, path>>}]
                      ELSE [popped EXCEPT !.consumed = @ \cup {i}, !.line = line, !.got = None]
         ELSE [tracer EXCEPT !.err_eof = TRUE, !.pc = "wait"]
    /\ UNCHANGED traceFrame

\* "let status = child.wait().await?" and the end of trace
Wait ==
    /\ pc = "trace" /\ tracer.pc = "wait"
    /\ tracer.child = "exited"
    /\ tracer' = [tracer EXCEPT !.pc = "returned", !.ret = TraceReturn(tracer.code, tracer.result)]
    /\ UNCHANGED traceFrame

ChildStep == ChildWrite \/ ChildClose \/ ChildExit

NextTrace == ChildWrite \/ ChildClose \/ ChildExit \/ ReadStdout \/ ReadStderr \/ Wait

SpecTrace == InitTrace /\ [][NextTrace]_vars

\* the operating system runs the child, and select! polls its branches in
\* random order: a branch that stays ready is taken
SpecTraceLive ==
    /\ InitTrace /\ [][NextTrace]_vars
    /\ WF_vars(ChildStep)
    /\ WF_vars(ReadStdout)
    /\ WF_vars(ReadStderr)
    /\ WF_vars(Wait)

\* ------------------------------------------------------------------------
\* extract_artifact_path on its own, applied to one line
\* ------------------------------------------------------------------------
Lines == {LineOf(mt, segs) : mt \in BOOLEAN, segs \in UNION {[1..n -> Segments] : n \in 0..MaxParts}}

InitExtract ==
    /\ IdleRun
    /\ m = IdleMerge
    /\ calls = NoCalls
    /\ pc = "extract"
    /\ \E line \in Lines : tracer = [IdleTrace EXCEPT !.pc = "extract", !.line = line]

ExtractLine ==
    /\ pc = "extract" /\ tracer.pc = "extract"
    /\ tracer' = [tracer EXCEPT !.pc = "extracted", !.got = ExtractArtifactPath(tracer.line)]
    /\ UNCHANGED traceFrame

NextExtract == ExtractLine

SpecExtract == InitExtract /\ [][NextExtract]_vars

----------------------------------------------------------------------------
\* Two scans of one tree after one trace: the consumer names (used_by) and
\* the order in which read_dir yields the entries are drawn for each.

\* used_by: consumer names for some of the traced artifacts
ConsumerMaps(used) ==
    {[a \in keys |-> {"app"}] : keys \in {x \in SUBSET used : Cardinality(x) <= MaxConsumers}}

ScanTwice ==
    /\ pc = "traced"
    /\ \E used_by_a \in ConsumerMaps(used_artifacts),
          used_by_b \in {EmptyMap, [a \in used_artifacts |-> {"app"}]},
          ord_a \in DirOrders, ord_b \in DirOrders :
         LET result_a == [used_artifacts |-> used_artifacts, used_by |-> used_by_a]
             result_b == [used_artifacts |-> used_artifacts, used_by |-> used_by_b]
         IN calls' = [calls EXCEPT
                !.op = "scans",
                !.scans = [used_by_a |-> used_by_a, used_by_b |-> used_by_b,
                           ord_a |-> ord_a, ord_b |-> ord_b,
                           stats_a |-> MergeFrom(EmptyStats, ScanRun(result_a, files, sessions, ord_a)),
                           stats_b |-> MergeFrom(EmptyStats, ScanRun(result_b, files, sessions, ord_b)),
                           deps_a |-> ScanRun(result_a, files, EmptyMap, ord_a),
                           deps_b |-> ScanRun(result_b, files, EmptyMap, ord_b)]]
    /\ pc' = "compared"
    /\ UNCHANGED <<files, sessions, units, cycle, used_artifacts, recompiled, total_stats, cli,
                   selection, removal_stats, attempted, prev, m, guard, tracer>>

NextScans == Guard \/ TargetCheck \/ Trace \/ ScanTwice

SpecScans == Init /\ [][NextScans]_vars

----------------------------------------------------------------------------
\* artifact_stem and crate_key applied to a file name on their own.

NameTokens == {LIB, <<"a">>, <<"1">>, <<"-">>, <<".">>}

RECURSIVE Concat(_)
Concat(parts) == IF parts = <<>> THEN <<>> ELSE Head(parts) \o Concat(Tail(parts))

\* the names of directory entries: not empty, and neither "." nor ".."
FileNames ==
    {Concat(parts) : parts \in UNION {[1..n -> NameTokens] : n \in 1..MaxTokens}}
        \ {<<".">>, <<".", ".">>}

InitNames ==
    /\ IdleRun
    /\ m = IdleMerge
    /\ tracer = IdleTrace
    /\ pc = "names"
    /\ \E name \in FileNames : calls = [NoCalls EXCEPT !.name = name]

ApplyNames ==
    /\ pc = "names"
    /\ calls' = [calls EXCEPT !.op = "names",
                              !.stem = ArtifactStem(calls.name),
                              !.key = CrateKey(calls.name)]
    /\ pc' = "named"
    /\ UNCHANGED <<files, sessions, units, cycle, used_artifacts, recompiled, total_stats, cli,
                   selection, removal_stats, attempted, prev, m, guard, tracer>>

NextNames == ApplyNames

SpecNames == InitNames /\ [][NextNames]_vars

\* ------------------------------------------------------------------------
\* Properties
\* ------------------------------------------------------------------------
\* the scan result in total_stats describes the tree as it is now
ScanValid == pc \in {"clean", "scanned", "selected", "dryrun"}

CandidatePaths == {i.path : i \in Range(total_stats.files_to_remove)}
CandidateDirs == {i.path : i \in Range(total_stats.dirs_to_remove)}

\* the profiles whose deps directory the scan visited
ScannedProfiles == {p \in Profiles : \E a \in used_artifacts : ProfileOf(a) = p /\ AreaOf(a) = "deps"}

DepsPaths(p) == {x \in DOMAIN files : ProfileOf(x) = p /\ AreaOf(x) = "deps"}
RootPaths(p) == {x \in DOMAIN files : ProfileOf(x) = p /\ AreaOf(x) = "root"}

\* every output file of a unit the build command builds
NeededPaths == UNION {UnitPaths(pu) : pu \in units}

Occurrences(s, x) == Cardinality({i \in 1..Len(s) : s[i] = x})
SameBag(s, t) == \A x \in Range(s) \cup Range(t) : Occurrences(s, x) = Occurrences(t, x)

\* C1: No-recompile.  No output file of a unit the build command builds is
\* ever a removal candidate, and once the removal has run, re-running the
\* build command finds no unit to compile.
C1_NoRecompile ==
    /\ (ScanValid \/ pc = "removed") => CandidatePaths \cap NeededPaths = {}
    /\ pc = "removed" => Dirty(files, units) = {}

\* C2: Idempotence.  The invocation that follows one which removed every
\* candidate it found, every deletion succeeding, reports no removable item.
C2_SecondCleanIsNoop ==
    (cycle >= 2 /\ prev = "full" /\ pc \in {"clean", "scanned"}) =>
        /\ total_stats.files = 0
        /\ total_stats.files_to_remove = <<>>
        /\ total_stats.dirs_to_remove = <<>>

\* the files of <p>/deps whose stem is the stem of a traced path in <p>/deps
StemShared(p) ==
    {f \in DepsPaths(p) :
        /\ ArtifactStem(NameOf(f)) # None
        /\ \E u \in used_artifacts :
              /\ ProfileOf(u) = p /\ AreaOf(u) = "deps"
              /\ ArtifactStem(NameOf(u)) = ArtifactStem(NameOf(f))}

\* the recognized files of <p>/deps that share no traced stem but whose crate
\* key is the name of a file in the profile root
KeyProtected(p) ==
    {f \in DepsPaths(p) \ StemShared(p) :
        /\ ArtifactStem(NameOf(f)) # None
        /\ CrateKey(NameOf(f)) \in ProtectedCrateNames(files, p)}

Recognized(p) == {f \in DepsPaths(p) : ArtifactStem(NameOf(f)) # None}

\* C3: Stem-sharing.  In a scanned deps directory every file that shares its
\* stem with a traced path of that directory is kept: it is no removal
\* candidate and its size is part of the profile's used_bytes, which is the
\* size of the stem-sharing and the protected files; a recognized file that
\* is neither is a removal candidate.
C3_StemSharing ==
    ScanValid =>
        \A p \in ScannedProfiles :
            /\ StemShared(p) \cap CandidatePaths = {}
            /\ total_stats.per_profile[p].used_bytes =
                   SumSizes(files, StemShared(p) \cup KeyProtected(p))
            /\ (Recognized(p) \ (StemShared(p) \cup KeyProtected(p))) \subseteq CandidatePaths

\* a sibling of a traced archive that the trace does not name is kept while
\* an unrelated stale archive of the same directory is a candidate
C3_Witness ==
    /\ pc = "scanned"
    /\ PathOf("debug", "deps", LibFooRlib) \in used_artifacts
    /\ PathOf("debug", "deps", FooObj) \in StemShared("debug") \ used_artifacts
    /\ PathOf("debug", "deps", LibBarRlib) \in CandidatePaths

\* C4: Root-output protection.  No file of a profile root is a removal
\* candidate, and no file of the profile's deps directory whose crate key is
\* the name of a root file (lib prefix stripped, '-' replaced by '_') is.
C4_RootOutputProtection ==
    ScanValid =>
        \A p \in Profiles :
            \A F \in RootPaths(p) :
                /\ F \notin CandidatePaths
                /\ \A f \in DepsPaths(p) :
                      CrateKey(NameOf(f)) = ReplaceHyphen(StripLib(NameOf(F)))
                          => f \notin CandidatePaths

\* the scan met a deps file that no traced stem covers and that only the
\* hyphenated name of the root executable protects
C4_Witness ==
    /\ pc = "scanned"
    /\ "debug" \in ScannedProfiles
    /\ PathOf("debug", "root", AppBin) \in DOMAIN files
    /\ PathOf("debug", "deps", AppOldDep) \in KeyProtected("debug")
    /\ CandidatePaths # {}

\* C5: Unrecognized-name safety.  A file without an artifact stem is no
\* removal candidate and its size is in no used_bytes: the kept bytes and the
\* candidate bytes of a scanned profile add up to the recognized files only.
C5_UnrecognizedNameSafety ==
    ScanValid =>
        /\ \A f \in CandidatePaths : ArtifactStem(NameOf(f)) # None
        /\ \A p \in ScannedProfiles :
              total_stats.per_profile[p].used_bytes
                  + SumSizes(files, CandidatePaths \cap DepsPaths(p))
                = SumSizes(files, Recognized(p))
        /\ total_stats.used_bytes =
              SumSizes(files, UNION {Recognized(p) \ CandidatePaths : p \in ScannedProfiles})

\* a scanned directory holds a file without a hash and a file without a stem
C5_Witness ==
    /\ pc = "scanned"
    /\ "debug" \in ScannedProfiles
    /\ \/ PathOf("debug", "deps", ReadmeTxt) \in DOMAIN files
       \/ PathOf("debug", "deps", LibSerdeRlib) \in DOMAIN files
    /\ total_stats.used_bytes > 0

\* the group of a session directory: its name up to the last '-'
GroupKey(path) ==
    LET n == NameOf(path)
        hyphens == {i \in 1..Len(n) : n[i] = "-"}
    IN IF hyphens = {} THEN n
       ELSE SubSeq(n, 1, (CHOOSE i \in hyphens : \A j \in hyphens : j <= i) - 1)

SessionGroup(path) == {x \in DOMAIN sessions : GroupKey(x) = GroupKey(path)}

\* C6: Incremental reducer.  Of every group of n > 1 session directories
\* exactly n-1 are in dirs_to_remove, each once, and the one left out is not
\* older than any marked one; of a group of one nothing is marked; nothing
\* else is marked.
C6_IncrementalReducer ==
    pc = "inc_done" =>
        /\ CandidateDirs \subseteq DOMAIN sessions
        /\ Len(total_stats.dirs_to_remove) = Cardinality(CandidateDirs)
        /\ \A d \in DOMAIN sessions :
              LET group == SessionGroup(d)
                  marked == group \cap CandidateDirs
              IN IF Cardinality(group) > 1
                 THEN /\ Cardinality(marked) = Cardinality(group) - 1
                      /\ \A kept \in group \ marked : \A x \in marked :
                            sessions[kept].mtime >= sessions[x].mtime
                 ELSE marked = {}

\* three sessions of one crate with distinct modification times: the two
\* older ones are marked
C6_Witness ==
    /\ pc = "inc_done"
    /\ DOMAIN sessions = {PathOf("debug", "incremental", n) : n \in {S_APP1, S_APP2, S_APP5}}
    /\ CandidateDirs = {PathOf("debug", "incremental", n) : n \in {S_APP1, S_APP2}}

\* C7: Merge associativity.  merge(merge(a,b),c) and merge(a,merge(b,c)) are
\* the same value, field for field.
C7_MergeAssociative ==
    {"left", "right"} \subseteq m.done => m.left = m.right

\* three non-empty operands, two of them with an error under the same key
C7_Witness ==
    /\ {"left", "right"} \subseteq m.done
    /\ m.a.files_to_remove # <<>>
    /\ m.b.dirs_to_remove # <<>>
    /\ DOMAIN m.c.errors # {}
    /\ m.left.files >= 2

\* C8 as stated: merge(a,b) and merge(b,a) are the same value.
C8_MergeCommutative ==
    {"ab", "ba"} \subseteq m.done => m.ab = m.ba

\* C8, amended: merge(a,b) and merge(b,a) agree on the counters, on per_crate
\* and per_profile, hold the same removal candidates up to their order, and
\* have the same error keys with the same error wherever the key is not in
\* both operands.
C8_MergeCommutativeUpToOrder ==
    {"ab", "ba"} \subseteq m.done =>
        /\ m.ab.files = m.ba.files
        /\ m.ab.bytes = m.ba.bytes
        /\ m.ab.used_bytes = m.ba.used_bytes
        /\ m.ab.per_crate = m.ba.per_crate
        /\ m.ab.per_profile = m.ba.per_profile
        /\ SameBag(m.ab.files_to_remove, m.ba.files_to_remove)
        /\ SameBag(m.ab.dirs_to_remove, m.ba.dirs_to_remove)
        /\ DOMAIN m.ab.errors = DOMAIN m.ba.errors
        /\ \A k \in DOMAIN m.ab.errors :
              k \notin (DOMAIN m.a.errors) \cap (DOMAIN m.b.errors)
                  => m.ab.errors[k] = m.ba.errors[k]

\* both orders were merged for operands that differ in candidates and in the
\* error of one key
C8_Witness ==
    /\ {"ab", "ba"} \subseteq m.done
    /\ m.ab # m.ba
    /\ m.ab.bytes > 0
    /\ (DOMAIN m.a.errors) \cap (DOMAIN m.b.errors) # {}

\* the items actually_remove_files was called with, files first
SelectedItems ==
    [i \in 1..Len(SelectedFiles(total_stats, selection)) |->
        [info |-> SelectedFiles(total_stats, selection)[i],
         key |-> <<CrateKey(NameOf(SelectedFiles(total_stats, selection)[i].path)),
                   SelectedFiles(total_stats, selection)[i].profile,
                   SelectedFiles(total_stats, selection)[i].path>>]]
    \o
    [i \in 1..Len(SelectedDirs(total_stats, selection)) |->
        [info |-> SelectedDirs(total_stats, selection)[i],
         key |-> <<INCREMENTAL,
                   SelectedDirs(total_stats, selection)[i].profile,
                   SelectedDirs(total_stats, selection)[i].path>>]]

\* the deletion of the path succeeded: it is no longer in the tree
Gone(path) == path \notin DOMAIN files /\ path \notin DOMAIN sessions

GoneItems == {i \in 1..Len(SelectedItems) : Gone(SelectedItems[i].info.path)}

RECURSIVE SumItemSizes(_)
SumItemSizes(idx) ==
    IF idx = {} THEN 0
    ELSE LET i == CHOOSE x \in idx : TRUE
         IN SelectedItems[i].info.size + SumItemSizes(idx \ {i})

\* C9: Partial-failure isolation.  When the deletion of item k fails, the
\* call still returns its stats, item k is in errors, every later item was
\* passed to the deletion call, and every item whose deletion succeeded,
\* before or after k, is counted.
C9_PartialFailureIsolation ==
    pc = "removed" =>
        \A k \in 1..Len(SelectedItems) :
            ~Gone(SelectedItems[k].info.path) =>
                /\ SelectedItems[k].key \in DOMAIN removal_stats.errors
                /\ \A j \in (k + 1)..Len(SelectedItems) :
                      SelectedItems[j].info.path \in attempted
                /\ removal_stats.files = Cardinality(GoneItems)

\* the deletion of an item failed and that of a later item succeeded
C9_Witness ==
    /\ pc = "removed"
    /\ \E k \in 1..Len(SelectedItems) : \E j \in (k + 1)..Len(SelectedItems) :
         /\ ~Gone(SelectedItems[k].info.path)
         /\ Gone(SelectedItems[j].info.path)
         /\ removal_stats.files >= 1

\* C10: Outcomes, not intentions.  files is the number of selected items
\* whose deletion succeeded, bytes the sum of their recorded sizes, and every
\* selected item is either deleted and counted or in errors under its key
\* (crate key, profile, path), never both and never neither; errors holds
\* nothing else.
C10_OutcomesNotIntentions ==
    pc = "removed" =>
        /\ removal_stats.files = Cardinality(GoneItems)
        /\ removal_stats.bytes = SumItemSizes(GoneItems)
        /\ \A i \in 1..Len(SelectedItems) :
              (i \in GoneItems) <=> (SelectedItems[i].key \notin DOMAIN removal_stats.errors)
        /\ DOMAIN removal_stats.errors \subseteq {SelectedItems[i].key : i \in 1..Len(SelectedItems)}

\* a removal with one refused deletion, one deleted file and one deleted
\* directory whose sizes are not all 1
C10_Witness ==
    /\ pc = "removed"
    /\ DOMAIN removal_stats.errors # {}
    /\ selection.remove_files /\ selection.remove_dirs
    /\ removal_stats.files >= 2
    /\ removal_stats.bytes > removal_stats.files

\* the paths of one profile among the files and session directories
ProfilePaths(p) == {x \in DOMAIN files \cup DOMAIN sessions : ProfileOf(x) = p}

\* C11: Failed trace blocks removal.  After the traced build command has
\* exited with a non-zero status the run ends in an error: nothing is
\* scanned, no selection is made under any flags or prompt answers, the
\* removal executor is not called and no file or directory is deleted.
C11_FailedTraceBlocksRemoval ==
    /\ [](tracer.code # 0 =>
            /\ pc = "error"
            /\ total_stats = EmptyStats
            /\ selection = NoSelection
            /\ attempted = {}
            /\ removal_stats = EmptyStats)
    /\ [][(tracer.code # 0 \/ tracer'.code # 0) => (files' = files /\ sessions' = sessions)]_vars

\* the build failed on a tree that holds a stale archive and stale sessions
C11_Witness ==
    /\ pc = "error"
    /\ tracer.pc = "returned" /\ tracer.code # 0
    /\ PathOf("debug", "deps", LibBarRlib) \in DOMAIN files
    /\ <<"debug", "bar">> \notin units
    /\ Cardinality({x \in DOMAIN sessions : ProfileOf(x) = "debug"}) >= 2

\* C14: --dry-run forces dry-run mode.  Whenever the --dry-run flag is set
\* the removal executor is never called and nothing is deleted, with or
\* without --yes and whatever is answered at the prompts.
C14_DryRunForcesDryRun ==
    cli.dry_run => (pc \notin {"selected", "removed"} /\ attempted = {})

\* C15: Shared-output-root guard.  With CARGO_TARGET_DIR set and
\* --allow-shared-target-dir not given, run ends in an error before the build
\* command is traced, before any directory is scanned and before anything is
\* deleted.
C15_SharedTargetGuard ==
    /\ []((guard.target_dir_set /\ ~guard.allow) =>
            /\ pc \in {"start", "refused"}
            /\ tracer = IdleTrace
            /\ used_artifacts = {} /\ recompiled = {}
            /\ total_stats = EmptyStats
            /\ attempted = {} /\ removal_stats = EmptyStats)
    /\ [][(guard.target_dir_set /\ ~guard.allow) => (files' = files /\ sessions' = sessions)]_vars

\* run refused on a tree that holds a stale archive
C15_Witness ==
    /\ pc = "refused"
    /\ guard.target_dir_set /\ ~guard.allow
    /\ PathOf("debug", "deps", LibBarRlib) \in DOMAIN files
    /\ <<"debug", "bar">> \notin units

\* C16: Other profiles are untouched.  A profile whose deps directory is the
\* parent of no traced artifact is not scanned: it has no per_profile entry,
\* none of its files or session directories is a candidate, none is passed
\* to a deletion call and none is deleted.
C16_OtherProfilesUntouched ==
    /\ []((ScanValid \/ pc = "removed") =>
            \A p \in Profiles \ ScannedProfiles :
                /\ p \notin DOMAIN total_stats.per_profile
                /\ \A x \in CandidatePaths \cup CandidateDirs \cup attempted : ProfileOf(x) # p)
    /\ [][pc = "selected" =>
            \A p \in Profiles \ ScannedProfiles :
                \A x \in ProfilePaths(p) : x \in DOMAIN files' \cup DOMAIN sessions']_vars

\* the debug profile was cleaned while the release profile, which the build
\* command does not build, holds a stale archive and a stale session
C16_Witness ==
    /\ pc = "removed"
    /\ ScannedProfiles = {"debug"}
    /\ attempted # {}
    /\ PathOf("release", "deps", LibBarRlib) \in DOMAIN files
    /\ PathOf("release", "incremental", S_APP1) \in DOMAIN sessions
    /\ PathOf("release", "incremental", S_APP2) \in DOMAIN sessions

\* the indices of the child's writes to one stream
WritesTo(stream) == {i \in 1..Len(tracer.script) : tracer.script[i].stream = stream}

\* C12: A non-zero exit status does not discard the trace result.  When
\* trace returns after the child exited with a non-zero status, the
\* used_artifacts collected before the exit are available to the caller.
C12_FailedTraceReturnsResult ==
    (tracer.pc = "returned" /\ tracer.ret.kind = "status") =>
        (tracer.ret.available /\ tracer.ret.used_artifacts = tracer.result)

\* a path lies below the output root: it has a root and its first name is
\* the name of the output root
BelowTargetDir(path) ==
    LET names == SelectSeq(Split(path, "/"), LAMBDA n : n # <<>> /\ n # <<".">>)
    IN path # <<>> /\ path[1] = "/" /\ Len(names) >= 1 /\ names[1] = <<"t">>

\* the characters of a path after the last '.' of its last name are an
\* allow-listed extension
AllowListed(path) ==
    \E e \in ArtifactExtensions :
        /\ Len(path) > Len(e) + 1
        /\ SubSeq(path, Len(path) - Len(e) + 1, Len(path)) = e
        /\ path[Len(path) - Len(e)] = "."
        /\ path[Len(path) - Len(e) - 1] # "/"

QuotedSubstrings(line) ==
    LET parts == Split(line, QUOTE)
    IN [k \in 1..((Len(parts) - 1) \div 2) |-> parts[2 * k]]

\* the last quoted substring that is an artifact below the output root
LastQuotedArtifact(line) ==
    LET q == QuotedSubstrings(line)
        ok == {k \in 1..Len(q) : BelowTargetDir(q[k]) /\ AllowListed(q[k])}
    IN IF ok = {} THEN None ELSE q[CHOOSE k \in ok : \A j \in ok : j <= k]

\* C17: For a line that mentions "mtime", extract_artifact_path returns the
\* last substring enclosed in a pair of quotes that has an allow-listed
\* extension and lies below the output root, and nothing when there is none;
\* text outside a pair of quotes is never returned.
C17_LastQuotedSubstring ==
    (tracer.pc = "extracted" /\ ContainsSeq(tracer.line, MTIME)) =>
        tracer.got = LastQuotedArtifact(tracer.line)

\* C18: Completion contract.  trace waits for the exit of the child only
\* after next_line has returned None on stdout and on stderr, every line the
\* child wrote to either stream having been read.
C18_BothStreamsDrained ==
    (pc = "trace" /\ tracer.pc = "wait") =>
        /\ tracer.out_eof /\ tracer.err_eof
        /\ tracer.consumed = 1..Len(tracer.script)

\* the child cannot go on: its next write is to a full pipe
ChildBlockedOn(stream) ==
    /\ tracer.child = "running"
    /\ tracer.next <= Len(tracer.script)
    /\ tracer.script[tracer.next].stream = stream
    /\ Len(PipeOf(tracer, stream)) >= PipeCap

\* the tracer cannot go on: no branch of select! is ready, or it waits for
\* the exit of a child that has not exited
TracerBlocked ==
    \/ tracer.pc = "loop" /\ ~StdoutReady(tracer) /\ ~StderrReady(tracer)
    \/ tracer.pc = "wait" /\ tracer.child # "exited"

\* C19: Deadlock-free draining.  For a child that writes its lines to the
\* two bounded pipes in any order, then closes both and exits, the tracer is
\* never blocked while the child is blocked on a full pipe, and trace
\* eventually returns.
C19_DeadlockFreeDraining ==
    /\ [](pc = "trace" => ~(TracerBlocked /\ (ChildBlockedOn("out") \/ ChildBlockedOn("err"))))
    /\ <>(tracer.pc = "returned")

\* trace returned after a child that wrote more lines to stderr than the pipe
\* holds, and a line to stdout in between
C19_Witness ==
    /\ pc = "trace" /\ tracer.pc = "returned" /\ tracer.ret.kind = "ok"
    /\ Cardinality(WritesTo("err")) > PipeCap
    /\ \E i \in WritesTo("out") : \E j, k \in WritesTo("err") : j < i /\ i < k

\* the artifacts of the lines of stderr that decode
DecodableArtifacts ==
    {ExtractArtifactPath(tracer.script[i].line) :
        i \in {j \in WritesTo("err") : Decodes(tracer.script[j].line)}} \ {None}

\* C20: A line that fails to decode is skipped.  trace does not return an
\* error for it: after a child that exits with status zero, trace returns the
\* artifacts of all other lines.
C20_DecodeFailureSkipped ==
    /\ tracer.ret.kind # "io"
    /\ (tracer.pc = "returned" /\ tracer.code = 0) =>
          (tracer.ret.kind = "ok" /\ tracer.ret.used_artifacts = DecodableArtifacts)

\* the paths that a step removes from the tree
Deleted == (DOMAIN files \ DOMAIN files') \cup (DOMAIN sessions \ DOMAIN sessions')

\* C21: Phase ordering.  Outside the run of the traced build command, which
\* rewrites its own outputs, a file or directory is deleted, or passed to a
\* deletion call, only in the removal step, which starts after the traced
\* process has exited and trace has returned, and after all deps and
\* incremental scans of the tree have completed and been merged into
\* total_stats; the removal changes no scan result.
C21_PhaseOrdering ==
    /\ [](attempted # {} => pc = "removed")
    /\ [][((pc # "checked" /\ Deleted # {}) \/ attempted' \ attempted # {}) =>
            /\ pc = "selected" /\ pc' = "removed"
            /\ tracer.pc = "returned" /\ tracer.child = "exited"
            /\ \E ord \in DirOrders :
                  total_stats =
                      MergeFrom(EmptyStats,
                                ScanAll(EmptyStats, ScanDirs(used_artifacts, ord), 1,
                                        files, sessions, used_artifacts, ord))
            /\ total_stats' = total_stats]_vars

\* a removal that deleted a file and a session directory
C21_Witness ==
    /\ pc = "removed"
    /\ tracer.pc = "returned" /\ tracer.child = "exited"
    /\ \E x \in CandidatePaths : x \in attempted /\ x \notin DOMAIN files
    /\ \E x \in CandidateDirs : x \in attempted /\ x \notin DOMAIN sessions

\* C22: A missing or unreadable output root is fatal.  When the output
\* root does not exist, or a deps directory cannot be read, the run ends in
\* an error: it never ends as a successful run.
C22_EnumerationFailureFatal ==
    (~guard.target_exists \/ ~guard.deps_readable) =>
        pc \in {"start", "guarded", "checked", "traced", "error"}

\* C24: Cross-directory stems never apply.  A recognized file of a scanned
\* deps directory that shares its stem only with traced paths of other
\* directories, and whose crate key is not protected, is a removal candidate.
C24_CrossDirectoryStems ==
    ScanValid =>
        \A p \in ScannedProfiles :
            \A f \in Recognized(p) \ (StemShared(p) \cup KeyProtected(p)) :
                (\E u \in used_artifacts :
                    /\ ProfileOf(u) # p
                    /\ ArtifactStem(NameOf(u)) = ArtifactStem(NameOf(f)))
                    => f \in CandidatePaths

\* the debug build uses libbar-d4.rlib; the release profile, scanned too,
\* holds a stale file of the same name, which is a candidate
C24_Witness ==
    /\ pc = "scanned"
    /\ ScannedProfiles = {"debug", "release"}
    /\ PathOf("debug", "deps", LibBarRlib) \in used_artifacts
    /\ PathOf("release", "deps", LibBarRlib) \notin used_artifacts
    /\ PathOf("release", "deps", LibBarRlib) \in CandidatePaths
    /\ PathOf("debug", "deps", LibBarRlib) \notin CandidatePaths

\* the selected directories whose deletion succeeded
GoneDirs ==
    {i \in 1..Len(total_stats.dirs_to_remove) :
        selection.remove_dirs /\ total_stats.dirs_to_remove[i].path \notin DOMAIN sessions}

RECURSIVE SumDirSizes(_)
SumDirSizes(idx) ==
    IF idx = {} THEN 0
    ELSE LET i == CHOOSE x \in idx : TRUE
         IN total_stats.dirs_to_remove[i].size + SumDirSizes(idx \ {i})

\* C25: Directory removal accounting.  A deleted directory is counted in
\* files and bytes, in per_crate under the marker "incremental" and in
\* per_profile; a directory whose deletion failed is in errors under
\* (marker, profile, path) and is not counted.
C25_DirectoryRemovalAccounting ==
    pc = "removed" =>
        /\ GoneDirs # {} =>
              /\ INCREMENTAL \in DOMAIN removal_stats.per_crate
              /\ removal_stats.per_crate[INCREMENTAL].files = Cardinality(GoneDirs)
              /\ removal_stats.per_crate[INCREMENTAL].bytes = SumDirSizes(GoneDirs)
        /\ \A i \in 1..Len(total_stats.dirs_to_remove) :
              (selection.remove_dirs /\ i \notin GoneDirs) =>
                  <<INCREMENTAL, total_stats.dirs_to_remove[i].profile,
                    total_stats.dirs_to_remove[i].path>> \in DOMAIN removal_stats.errors

RECURSIVE SumListSizes(_)
SumListSizes(list) == IF list = <<>> THEN 0 ELSE Head(list).size + SumListSizes(Tail(list))

\* C28: Candidate/counter consistency.  In the stats of the scans and of
\* their merges, files is the number of entries of files_to_remove and
\* dirs_to_remove and bytes is the sum of the sizes recorded in them.
C28_CandidateCounterConsistency ==
    /\ total_stats.files = Len(total_stats.files_to_remove) + Len(total_stats.dirs_to_remove)
    /\ total_stats.bytes =
           SumListSizes(total_stats.files_to_remove) + SumListSizes(total_stats.dirs_to_remove)

\* the merged scans of two profiles found files and session directories
C28_Witness ==
    /\ pc = "scanned"
    /\ \E x \in CandidatePaths : ProfileOf(x) = "debug"
    /\ \E x \in CandidatePaths : ProfileOf(x) = "release"
    /\ \E x \in CandidateDirs : ProfileOf(x) = "debug"
    /\ \E x \in CandidateDirs : ProfileOf(x) = "release"

\* C29: The scan phase is read-only.  From the return of trace to the call
\* of actually_remove_files no file or directory is deleted, created or
\* modified.
C29_ScanReadOnly ==
    [][(pc = "traced" \/ pc = "scanned") => UNCHANGED <<files, sessions>>]_vars

\* the scans found files and directories to remove and all are still there
C29_Witness ==
    /\ pc = "scanned"
    /\ CandidatePaths # {} /\ CandidatePaths \subseteq DOMAIN files
    /\ CandidateDirs # {} /\ CandidateDirs \subseteq DOMAIN sessions

\* the paths of the selected categories
ListedAndSelected ==
    (IF selection.remove_files THEN CandidatePaths ELSE {})
        \cup (IF selection.remove_dirs THEN CandidateDirs ELSE {})

\* C30: The removal executor deletes only what is listed and selected.  The
\* paths passed to a deletion call are the paths of files_to_remove when
\* remove_files is selected and those of dirs_to_remove when remove_dirs is
\* selected; every other path of the tree stays as it is.
C30_OnlyListedAndSelected ==
    /\ [](pc = "removed" => attempted = ListedAndSelected)
    /\ [][pc = "selected" =>
            /\ DOMAIN files' \subseteq DOMAIN files
            /\ DOMAIN sessions' \subseteq DOMAIN sessions
            /\ \A x \in DOMAIN files \ ListedAndSelected :
                  x \in DOMAIN files' /\ files'[x] = files[x]
            /\ \A x \in DOMAIN sessions \ ListedAndSelected :
                  x \in DOMAIN sessions' /\ sessions'[x] = sessions[x]]_vars

\* files were removed while the listed session directories, not selected,
\* were left
C30_Witness ==
    /\ pc = "removed"
    /\ selection.remove_files /\ ~selection.remove_dirs
    /\ attempted # {}
    /\ CandidateDirs # {} /\ CandidateDirs \subseteq DOMAIN sessions

\* C23: used_by is reporting-only.  Two scans of the same tree with the
\* same used_artifacts and the same enumeration order, whatever their
\* used_by maps, produce the same CleanupStats: the same files_to_remove
\* and dirs_to_remove and the same counters.
C23_UsedByReportingOnly ==
    (calls.op = "scans" /\ calls.scans.ord_a = calls.scans.ord_b) =>
        /\ calls.scans.stats_a = calls.scans.stats_b
        /\ calls.scans.deps_a = calls.scans.deps_b

\* two scans with different used_by maps that found files and directories
C23_Witness ==
    /\ calls.op = "scans"
    /\ calls.scans.ord_a = calls.scans.ord_b
    /\ calls.scans.used_by_a # calls.scans.used_by_b
    /\ calls.scans.used_by_a # EmptyMap
    /\ calls.scans.stats_a.files_to_remove # <<>>
    /\ calls.scans.stats_a.dirs_to_remove # <<>>
    /\ calls.scans.stats_a.used_bytes > 0

\* C26: Scan determinism.  Two deps scans of the same tree with the same
\* traced set under different enumeration orders give the same removal
\* candidates and the same counters (removed, kept, per crate, per profile).
C26_ScanDeterminism ==
    calls.op = "scans" =>
        LET a == calls.scans.deps_a
            b == calls.scans.deps_b
        IN /\ SameBag(a.files_to_remove, b.files_to_remove)
           /\ a.files = b.files /\ a.bytes = b.bytes
           /\ a.used_bytes = b.used_bytes
           /\ a.per_crate = b.per_crate /\ a.per_profile = b.per_profile

\* two scans in opposite orders that list the same candidates differently
C26_Witness ==
    /\ calls.op = "scans"
    /\ calls.scans.ord_a # calls.scans.ord_b
    /\ Len(calls.scans.deps_a.files_to_remove) >= 2
    /\ calls.scans.deps_a.files_to_remove # calls.scans.deps_b.files_to_remove
    /\ calls.scans.deps_a.used_bytes > 0

\* C27: The crate-name part is never empty.  When artifact_stem returns
\* a stem for a file name, a non-empty crate name precedes the hash
\* separator of the stem and crate_key of the name is not empty.
C27_CrateNameNeverEmpty ==
    (calls.op = "names" /\ calls.stem # None) =>
        /\ RFind(calls.stem, "-") > 1
        /\ calls.key # <<>>

====
